---- MODULE Spec2Model ----
(***************************************************************************)
(* The Superstore ETL pipeline of src/etl/main.py as a state machine.      *)
(*                                                                         *)
(* One process runs main(): connect, initialise the schema, extract the    *)
(* CSV file, transform it, build and load the five dimension tables, then  *)
(* build and load Fact_Sales.  The store (SQL Server) is the only state    *)
(* that survives a run; a second run of the same file starts from the      *)
(* store the first run left, until the schema script resets it: in main,   *)
(* or through execute_schema_script, called on the store before a run.     *)
(*                                                                         *)
(* Representation of pandas values:                                        *)
(*  - a frame is a sequence of records (row order is the frame's order);   *)
(*  - a missing cell (NaN / None / NaT: all "null" to pandas, line 116     *)
(*    only changes how the driver sees it) is NA for text cells and NaN    *)
(*    (= NaT) for numeric and date cells;                                  *)
(*  - a Timestamp is a number of ticks since 1970-01-01 00:00, with        *)
(*    TicksPerDay ticks in a day (the model's clock resolution);           *)
(*  - a discount is a number of hundredths (0.2 is 20);                    *)
(*  - text values come from a small alphabet of strings, all shorter than  *)
(*    255 characters.                                                      *)
(* The measure columns the checked properties do not read (quantity,       *)
(* profit, shipping_cost and the features derived from them) are left out  *)
(* of the rows; the input file is assumed to hold every column that        *)
(* fact_cols (line 245) needs.                                             *)
(***************************************************************************)
EXTENDS Integers, Sequences, FiniteSets, TLC

\* ------------------------------------------------------------------ bounds
\* Largest number of data rows in the input file.
MaxRows == 3
\* Rows per insert batch: insert_data's chunksize (1000 in the source, line
\* 108/141/254), scaled down so that tables of a few rows span several batches.
chunksize == 2
\* Clock resolution: ticks per calendar day.
TicksPerDay == 2

\* ------------------------------------------------------- missing values
\* NaN is coded -1, a number no cell of the model's files holds as a value.
NA == "<NA>"
NaN == 0 - 1
NaT == NaN

\* --------------------------------------------------------- pure helpers
\* Series.astype(str): a missing cell becomes the text 'nan'.
AsStr(v) == IF v = NA THEN "nan" ELSE v

\* Series.str.upper on the model's alphabet of identifiers.
Upper(s) ==
  CASE s = "ab-1" -> "AB-1"
    [] s = "cd-2" -> "CD-2"
    [] s = "p-1" -> "P-1"
    [] s = "q-2" -> "Q-2"
    [] s = "nan" -> "NAN"
    [] OTHER -> s

\* Lines 64-68: an identifier column is made text and upper-cased.
NormalizeIdLeavesCase(v) == AsStr(v)

NormalizeId(v) == Upper(AsStr(v))

\* Series.str.slice(0, 255): every string of the model is shorter than 255.
Slice255(s) == s

\* Column-name normalisation of line 62 on the headers the model's files use.
NormalizeName(h) ==
  CASE h = "City" -> "city"
    [] h = "State" -> "state"
    [] h = "Postal Code" -> "postal_code"
    [] h = "Postal.Code" -> "postal_code"
    [] h = "Market" -> "market"
    [] OTHER -> h

\* pd.to_datetime(errors='coerce'): what does not parse becomes NaT.
ToDatetime(v) == IF v < 0 THEN NaT ELSE v

\* The calendar day (days since 1970-01-01) a Timestamp falls on.
DayOf(ts) == ts \div TicksPerDay

\* Proleptic Gregorian date <<year, month, day>> of a day number >= 0.
CivilFromDays(days) ==
  LET z == days + 719468
      era == z \div 146097
      doe == z - era * 146097
      yoe == (doe - doe \div 1460 + doe \div 36524 - doe \div 146096) \div 365
      doy == doe - (365 * yoe + yoe \div 4 - yoe \div 100)
      mp == (5 * doy + 2) \div 153
      d == doy - (153 * mp + 2) \div 5 + 1
      m == IF mp < 10 THEN mp + 3 ELSE mp - 9
      y == yoe + era * 400 + (IF m <= 2 THEN 1 ELSE 0)
  IN <<y, m, d>>

\* dt.strftime('%Y%m%d') read as an integer.
StrftimeYmd(ts) ==
  LET c == CivilFromDays(DayOf(ts))
  IN c[1] * 10000 + c[2] * 100 + c[3]

\* dt.dayofweek: Monday = 0 ... Sunday = 6 (1970-01-01 was a Thursday).
DayOfWeek(ts) == (DayOf(ts) + 3) % 7

MonthNames ==
  <<"January", "February", "March", "April", "May", "June", "July",
    "August", "September", "October", "November", "December">>

\* Discount Category (lines 88-91).  d is in hundredths; a missing discount
\* (NaN) compares False with everything.
categorize_discount_low_inclusive(d) ==
  IF d # NaN /\ d = 0 THEN "No Discount"
  ELSE IF d # NaN /\ d <= 20 THEN "Low"
  ELSE "High"

categorize_discount(d) ==
  IF d # NaN /\ d = 0 THEN "No Discount"
  ELSE IF d # NaN /\ d < 20 THEN "Low"
  ELSE "High"

\* Series.min()/max() of order_date: missing values are skipped, and the
\* result is NaT when nothing is left.
ValidDates(rows) ==
  {rows[i].order_date : i \in 1..Len(rows)} \ {NaT}

MinDate(rows) ==
  LET s == ValidDates(rows)
  IN IF s = {} THEN NaT ELSE CHOOSE x \in s : \A y \in s : x <= y

MaxDate(rows) ==
  LET s == ValidDates(rows)
  IN IF s = {} THEN NaT ELSE CHOOSE x \in s : \A y \in s : x >= y

\* pd.date_range(start, end), daily frequency: start, start + 1 day, ... up
\* to the last one that is <= end.  (Raises when start or end is NaT.)
date_range(start, end) ==
  IF end < start THEN <<>>
  ELSE [k \in 1..((end - start) \div TicksPerDay + 1) |->
          start + (k - 1) * TicksPerDay]

\* Indices kept by DataFrame.drop_duplicates (keep='first') over the key
\* values keys[1..n]: the first occurrence of each key, in frame order.
FirstOccurrencesKeepLast(keys) ==
  LET F[i \in 0..Len(keys)] ==
        IF i = 0 THEN <<>>
        ELSE IF \E j \in (i + 1)..Len(keys) : keys[j] = keys[i]
             THEN F[i - 1]
             ELSE Append(F[i - 1], i)
  IN F[Len(keys)]

FirstOccurrences(keys) ==
  LET F[i \in 0..Len(keys)] ==
        IF i = 0 THEN <<>>
        ELSE IF \E j \in 1..(i - 1) : keys[j] = keys[i]
             THEN F[i - 1]
             ELSE Append(F[i - 1], i)
  IN F[Len(keys)]

\* The rows of a frame at the given indices.
Take(rows, idx) == [k \in 1..Len(idx) |-> rows[idx[k]]]

\* reset_index(drop=True) followed by "index + 1": the surrogate key of the
\* row at (1-based) position k.
SurrogateKeyZeroBased(k) == k - 1

SurrogateKey(k) == k

\* ------------------------------------------------------------ the input
\* A Timestamp on day `day` (days since 1970-01-01), `tick` ticks after
\* midnight.  19781 is 2024-02-28, 19782 is 2024-02-29,
\* 19783 is 2024-03-01, 19784 is 2024-03-02 (a Saturday).
Ts(day, tick) == day * TicksPerDay + tick

\* The header sets of the files: which optional location columns exist.
Headers == {{"City", "State"}, {"City", "State", "Postal Code"}}

\* The data rows a file is made of (raw cells, before transform_data).
\* order_date is a Timestamp or a negative code for a cell that does not
\* parse as a date (-1: empty).
RowPool ==
  { [row_id |-> 1, order_id |-> "O1", order_date |-> Ts(19781, 0),
     ship_mode |-> "First Class",
     customer_id |-> "ab-1", customer_name |-> "Ann", segment |-> "Consumer",
     product_id |-> "p-1", product_name |-> "Pen",
     loc |-> [h \in {"City", "State", "Postal Code"} |->
                IF h = "City" THEN "Austin" ELSE
                IF h = "State" THEN "Texas" ELSE "73301"],
     sales |-> 100, discount |-> 0],
    [row_id |-> 2, order_id |-> "O2", order_date |-> Ts(19783, 0),
     ship_mode |-> "Second Class",
     customer_id |-> "AB-1", customer_name |-> "Anne", segment |-> "Corporate",
     product_id |-> "P-1", product_name |-> "Pencil",
     loc |-> [h \in {"City", "State", "Postal Code"} |->
                IF h = "City" THEN "Austin" ELSE
                IF h = "State" THEN "Texas" ELSE "73344"],
     sales |-> 200, discount |-> 20],
    [row_id |-> 1, order_id |-> "O3", order_date |-> Ts(19781, 1),
     ship_mode |-> "First Class",
     customer_id |-> "cd-2", customer_name |-> "Bob", segment |-> "Consumer",
     product_id |-> "q-2", product_name |-> "Ink",
     loc |-> [h \in {"City", "State", "Postal Code"} |->
                IF h = "City" THEN "Dallas" ELSE
                IF h = "State" THEN "Texas" ELSE "75001"],
     sales |-> 300, discount |-> 10],
    [row_id |-> 3, order_id |-> "O4", order_date |-> 0 - 1,
     ship_mode |-> NA,
     customer_id |-> "cd-2", customer_name |-> "Bob", segment |-> "Consumer",
     product_id |-> "q-2", product_name |-> "Ink",
     loc |-> [h \in {"City", "State", "Postal Code"} |->
                IF h = "City" THEN "Austin" ELSE
                IF h = "State" THEN "Texas" ELSE "73301"],
     sales |-> 0, discount |-> NaN],
    [row_id |-> 2, order_id |-> "O5", order_date |-> Ts(19782, 1),
     ship_mode |-> "Second Class",
     customer_id |-> "ab-1", customer_name |-> "Ann", segment |-> "Consumer",
     product_id |-> "q-2", product_name |-> "Ink",
     loc |-> [h \in {"City", "State", "Postal Code"} |->
                IF h = "City" THEN "Dallas" ELSE
                IF h = "State" THEN "Texas" ELSE "75001"],
     sales |-> 50, discount |-> 0 - 10],
    [row_id |-> 3, order_id |-> "O6", order_date |-> Ts(19784, 0),
     ship_mode |-> "First Class",
     customer_id |-> NA, customer_name |-> "Eve", segment |-> "Home Office",
     product_id |-> "P-1", product_name |-> "Pencil",
     loc |-> [h \in {"City", "State", "Postal Code"} |->
                IF h = "City" THEN "Dallas" ELSE
                IF h = "State" THEN "Texas" ELSE "75001"],
     sales |-> 75, discount |-> 19] }

\* A pool row as it stands in a file with the given header.
FileRow(r, hdr) == [r EXCEPT !.loc = [h \in hdr |-> r.loc[h]]]

\* Every file of one to MaxRows data rows with the given header.
Files(hdr) ==
  UNION { { [i \in 1..n |-> FileRow(f[i], hdr)] : f \in [1..n -> RowPool] } :
          n \in 1..MaxRows }

\* ------------------------------------------------------- transform_data
\* A column holds text (dtype object) when some cell of it is text; a column
\* of missing cells only is float64 and is not touched by lines 102-104.
IsObject(cells) == \E i \in 1..Len(cells) : cells[i] # NA

TruncateCell(isobj, v) == IF isobj THEN Slice255(AsStr(v)) ELSE v

\* date_key (line 99): strftime of NaT is missing, filled with 0.
DateKeyOf(ts) == IF ts = NaT THEN 0 ELSE StrftimeYmd(ts)

\* Lines 62-99 for one row: column names normalised, identifiers upper-cased,
\* order_date parsed, discount_category and date_key derived.
TransformRow(r) ==
  LET od == ToDatetime(r.order_date)
      cols == {NormalizeName(h) : h \in DOMAIN r.loc}
  IN [row_id |-> r.row_id,
      order_id |-> r.order_id,
      order_date |-> od,
      ship_mode |-> r.ship_mode,
      customer_id |-> NormalizeId(r.customer_id),
      customer_name |-> r.customer_name,
      segment |-> r.segment,
      product_id |-> NormalizeId(r.product_id),
      product_name |-> r.product_name,
      loc |-> [c \in cols |->
                 r.loc[CHOOSE h \in DOMAIN r.loc : NormalizeName(h) = c]],
      sales |-> r.sales,
      discount |-> r.discount,
      discount_category |-> categorize_discount(r.discount),
      date_key |-> DateKeyOf(od)]

\* transform_data (lines 57-106): the per-row steps, then the truncation of
\* every text column (lines 101-104).
transform_data(rows) ==
  LET t == [i \in 1..Len(rows) |-> TransformRow(rows[i])]
      obj(f) == IsObject([i \in 1..Len(t) |-> t[i][f]])
      objloc(c) == IsObject([i \in 1..Len(t) |-> t[i].loc[c]])
  IN [i \in 1..Len(t) |->
        [t[i] EXCEPT
           !.order_id = TruncateCell(obj("order_id"), @),
           !.ship_mode = TruncateCell(obj("ship_mode"), @),
           !.customer_id = TruncateCell(obj("customer_id"), @),
           !.customer_name = TruncateCell(obj("customer_name"), @),
           !.segment = TruncateCell(obj("segment"), @),
           !.product_id = TruncateCell(obj("product_id"), @),
           !.product_name = TruncateCell(obj("product_name"), @),
           !.discount_category = TruncateCell(obj("discount_category"), @),
           !.loc = [c \in DOMAIN @ |-> TruncateCell(objloc(c), @[c])]]]

\* ---------------------------------------------------- create_dimensions
\* One Dim_Date row for a Timestamp of the range (lines 147-156).
DayNames ==
  <<"Monday", "Tuesday", "Wednesday", "Thursday", "Friday", "Saturday",
    "Sunday">>

DateRow(ts) ==
  LET c == CivilFromDays(DayOf(ts))
  IN [DateKey |-> StrftimeYmd(ts), Date |-> ts, Year |-> c[1],
      Quarter |-> (c[2] - 1) \div 3 + 1, Month |-> c[2],
      MonthName |-> MonthNames[c[2]], Day |-> c[3],
      Weekday |-> DayNames[DayOfWeek(ts) + 1],
      IsWeekend |-> IF DayOfWeek(ts) \in {5, 6} THEN 1 ELSE 0]

\* The "Unknown" row (lines 159-162): every field missing but the key and
\* the marker name.
unknown_date ==
  [DateKey |-> 0, Date |-> NaT, Year |-> NaN, Quarter |-> NaN, Month |-> NaN,
   MonthName |-> "Unknown", Day |-> NaN, Weekday |-> NA, IsWeekend |-> NaN]

\* Lines 144-163: the date range of the batch with the Unknown row in front.
BuildDimDate(rows) ==
  LET r == date_range(MinDate(rows), MaxDate(rows))
  IN <<unknown_date>> \o [k \in 1..Len(r) |-> DateRow(r[k])]

\* Series.is_unique.
is_unique(keys) ==
  \A i, j \in 1..Len(keys) : i # j => keys[i] # keys[j]

\* Lines 172-175: project, drop duplicate rows, then drop duplicate keys.
BuildDimCustomer(rows) ==
  LET proj == [i \in 1..Len(rows) |->
                 [CustomerID |-> rows[i].customer_id,
                  CustomerName |-> rows[i].customer_name,
                  Segment |-> rows[i].segment]]
      d1 == Take(proj, FirstOccurrences(proj))
  IN Take(d1, FirstOccurrences([k \in 1..Len(d1) |-> d1[k].CustomerID]))

\* Lines 179-182 (category and sub_category ride along with product_name
\* and are left out).
BuildDimProduct(rows) ==
  LET proj == [i \in 1..Len(rows) |->
                 [ProductID |-> rows[i].product_id,
                  ProductName |-> rows[i].product_name]]
      d1 == Take(proj, FirstOccurrences(proj))
  IN Take(d1, FirstOccurrences([k \in 1..Len(d1) |-> d1[k].ProductID]))

\* Lines 186-189.
BuildDimShipMode(rows) ==
  LET vals == [i \in 1..Len(rows) |-> rows[i].ship_mode]
      idx == FirstOccurrences(vals)
  IN [k \in 1..Len(idx) |->
        [ShipModeID |-> SurrogateKey(k), ShipMode |-> vals[idx[k]]]]

\* The candidate location columns (line 194) and the schema name each one is
\* renamed to (lines 200-205; lines 229-232 rebuild the same names).
loc_cols == {"city", "state", "country", "region", "market", "postal_code"}

RightKey(k) ==
  CASE k = "postal_code" -> "PostalCode"
    [] k = "city" -> "City"
    [] k = "state" -> "State"
    [] k = "country" -> "Country"
    [] k = "region" -> "Region"
    [] k = "market" -> "Market"
    [] OTHER -> k

\* The location columns the frame has (line 195 and line 225).
AvailableCols(rows) ==
  IF rows = <<>> THEN {} ELSE loc_cols \cap DOMAIN rows[1].loc

\* Lines 197-209.
BuildDimLocation(rows) ==
  LET tuples == [i \in 1..Len(rows) |-> rows[i].loc]
      idx == FirstOccurrences(tuples)
  IN [k \in 1..Len(idx) |->
        [LocationID |-> SurrogateKey(k),
         cols |-> [c \in {RightKey(a) : a \in DOMAIN tuples[idx[k]]} |->
                     tuples[idx[k]][CHOOSE a \in DOMAIN tuples[idx[k]] :
                                      RightKey(a) = c]]]]

\* ------------------------------------------------------ load_face_sales
\* DataFrame.merge(how='left') of the frame with Dim_ShipMode on
\* ship_mode = ShipMode (line 222): one output row per matching dimension
\* row, in the order of the left frame; a left row without a match is kept
\* with a missing ShipModeID.  (pandas matches a missing key with a missing
\* key.)
MergeShipMode(left, right) ==
  LET F[i \in 0..Len(left)] ==
        IF i = 0 THEN <<>>
        ELSE LET m == SelectSeq(right,
                                LAMBDA d : d.ShipMode = left[i].ship_mode)
             IN F[i - 1] \o
                (IF m = <<>>
                 THEN << left[i] @@ ("ShipModeID" :> NaN) >>
                 ELSE [k \in 1..Len(m) |->
                         left[i] @@ ("ShipModeID" :> m[k].ShipModeID)])
  IN F[Len(left)]

\* The merge with Dim_Location on the available location columns, each
\* matched with the column it was renamed to (lines 224-234).
MergeLocation(left, right, left_keys) ==
  LET F[i \in 0..Len(left)] ==
        IF i = 0 THEN <<>>
        ELSE LET m == SelectSeq(right,
                        LAMBDA d : \A c \in left_keys :
                                      /\ RightKey(c) \in DOMAIN d.cols
                                      /\ d.cols[RightKey(c)] = left[i].loc[c])
             IN F[i - 1] \o
                (IF m = <<>>
                 THEN << left[i] @@ ("LocationID" :> NaN) >>
                 ELSE [k \in 1..Len(m) |->
                         left[i] @@ ("LocationID" :> m[k].LocationID)])
  IN F[Len(left)]

\* Lines 219-251: resolve the keys, rename, drop duplicate RowIDs, project
\* the columns of fact_cols.
BuildFact(rows, shipmode, location) ==
  LET m1 == MergeShipMode(rows, shipmode)
      m2 == MergeLocation(m1, location, AvailableCols(rows))
      d == Take(m2, FirstOccurrences([k \in 1..Len(m2) |-> m2[k].row_id]))
  IN [k \in 1..Len(d) |->
        [RowID |-> d[k].row_id, OrderID |-> d[k].order_id,
         DateKey |-> d[k].date_key, CustomerID |-> d[k].customer_id,
         ProductID |-> d[k].product_id, LocationID |-> d[k].LocationID,
         ShipModeID |-> d[k].ShipModeID, Sales |-> d[k].sales,
         Discount |-> d[k].discount,
         discount_category |-> d[k].discount_category]]

\* ---------------------------------------------------------- insert_data
\* data[i:i+chunksize] with a 0-based offset i (line 123).
Chunk(data, i) ==
  SubSeq(data, i + 1, IF i + chunksize < Len(data) THEN i + chunksize
                      ELSE Len(data))

\* The committed rows of a table once a batch has failed (lines 127-133):
\* the batches committed before it stay, and the rows of the failing batch,
\* never committed, go when the connection is closed.
AfterFailedBatchRollsBack(committed, chunk) == <<>>

AfterFailedBatch(committed, chunk) == committed

\* ------------------------------------------------------------ the store
Dimensions ==
  {"Dim_Date", "Dim_Customer", "Dim_Product", "Dim_ShipMode", "Dim_Location"}

Tables == Dimensions \cup {"Fact_Sales"}

\* What sql/schema.sql leaves behind: the six tables dropped and recreated,
\* empty.
SchemaScript(s) == [t \in Tables |-> <<>>]

\* The store after the schema statements have run and conn.commit() (lines
\* 272, 319) has made them permanent: `old` before the script, `new` after it.
CommitSchema(old, new) == new

\* The stage main() runs once the load of a table has returned: the order of
\* the sections of create_dimensions (lines 143-211), then load_face_sales
\* (line 338), then the end of main.
StageAfterSkipsLocation(table) ==
  CASE table = "Dim_Date" -> "Dim_Customer"
    [] table = "Dim_Customer" -> "Dim_Product"
    [] table = "Dim_Product" -> "Dim_ShipMode"
    [] table = "Dim_ShipMode" -> "Fact_Sales"
    [] table = "Dim_Location" -> "Fact_Sales"
    [] OTHER -> "done"

StageAfter(table) ==
  CASE table = "Dim_Date" -> "Dim_Customer"
    [] table = "Dim_Customer" -> "Dim_Product"
    [] table = "Dim_Product" -> "Dim_ShipMode"
    [] table = "Dim_ShipMode" -> "Dim_Location"
    [] table = "Dim_Location" -> "Fact_Sales"
    [] OTHER -> "done"

\* The exit status of the process for a fatal condition: sys.exit(1) in the
\* handlers (lines 39, 46, 131, 281, 326), and the interpreter's status 1 for an
\* exception nobody catches; 0 when main returns.
ExitStatusLoadFailureZero(cond) ==
  IF cond \in {"none", "LoadFailure"} THEN 0 ELSE 1

ExitStatus(cond) == IF cond = "none" THEN 0 ELSE 1

\* ---------------------------------------------------------------- state
VARIABLES
  csv,           \* the data rows of superstore.csv
  header,        \* the optional (location) columns of the file
  pc,            \* the stage main() is at
  df,            \* the frame: extracted, then transformed in place
  dim_date, dim_customer, dim_product, dim_shipmode, dim_location,
  final_fact,    \* the frames built so far by this run
  load,          \* the insert_data call in progress
  store,         \* the committed rows of each table of db_superstore
  exited,        \* whether the process has ended
  exit_code,     \* its exit status, once it has ended
  fatal,         \* the fatal condition that ended it, or "none"
  executed,      \* the stages this run has entered
  second_run,    \* whether this is the re-run of the pipeline
  setup          \* the outcome of the last call of execute_schema_script

vars ==
  <<csv, header, pc, df, dim_date, dim_customer, dim_product, dim_shipmode,
    dim_location, final_fact, load, store, exited, exit_code, fatal,
    executed, second_run, setup>>

frames ==
  <<dim_date, dim_customer, dim_product, dim_shipmode, dim_location,
    final_fact>>

NoLoad == [table |-> "none", data |-> <<>>, i |-> 0, conn |-> "none"]

\* No call of execute_schema_script has been made.
NoSetup == [state |-> "none", exit_code |-> 0]

Init ==
  /\ header \in Headers
  /\ csv \in Files(header)
  /\ pc = "connect"
  /\ df = <<>>
  /\ dim_date = <<>> /\ dim_customer = <<>> /\ dim_product = <<>>
  /\ dim_shipmode = <<>> /\ dim_location = <<>> /\ final_fact = <<>>
  /\ load = NoLoad
  /\ store = [t \in Tables |-> <<>>]
  /\ exited = FALSE
  /\ exit_code = 0
  /\ fatal = "none"
  /\ executed = {}
  /\ second_run = FALSE
  /\ setup = NoSetup

\* The process ends on a fatal condition.
Abort(cond) ==
  /\ pc' = "exit"
  /\ exited' = TRUE
  /\ exit_code' = ExitStatus(cond)
  /\ fatal' = cond

Running == UNCHANGED <<exited, exit_code, fatal>>

\* get_db_connection (lines 27-39).
get_db_connection ==
  /\ pc = "connect"
  /\ executed' = executed \cup {"connect"}
  /\ \E ok \in BOOLEAN :
       IF ok THEN pc' = "schema" /\ Running
       ELSE Abort("ConnectionFailure")
  /\ UNCHANGED <<csv, header, df, frames, load, store, second_run, setup>>

\* Schema initialisation in main (lines 293-326): the statements of the
\* script run in one transaction, committed at the end; any failure is fatal.
InitSchema ==
  /\ pc = "schema"
  /\ executed' = executed \cup {"schema"}
  /\ \E ok \in BOOLEAN :
       IF ok
       THEN /\ pc' = "extract"
            /\ store' = CommitSchema(store, SchemaScript(store))
            /\ Running
       ELSE Abort("SchemaInitializationFailure") /\ store' = store
  /\ UNCHANGED <<csv, header, df, frames, load, second_run, setup>>

\* execute_schema_script (lines 256-281): the entry point of a set-up script
\* (main holds its own copy of these lines and does not call it).  It is
\* called on the store before a run of main takes its first step.  The
\* statements run in one transaction: committed at line 272 the six tables
\* are reset and the function returns; when the script cannot be read, the
\* connection cannot be opened or a statement fails, nothing is committed,
\* the connection is closed and the calling process exits with status 1.
execute_schema_script ==
  /\ pc = "connect"
  /\ \E ok \in BOOLEAN :
       IF ok
       THEN /\ store' = CommitSchema(store, SchemaScript(store))
            /\ setup' = [state |-> "returned", exit_code |-> 0]
       ELSE /\ store' = store
            /\ setup' = [state |-> "exited",
                         exit_code |->
                           ExitStatus("SchemaInitializationFailure")]
  /\ UNCHANGED <<csv, header, pc, df, frames, load, exited, exit_code, fatal,
                 executed, second_run>>

\* extract_data (lines 41-55): the file is missing, or cannot be read with
\* either encoding (the second read_csv raises), or is read.
extract_data ==
  /\ pc = "extract"
  /\ executed' = executed \cup {"extract"}
  /\ \E outcome \in {"ok", "InputNotFound", "EncodingError"} :
       IF outcome = "ok" THEN pc' = "transform" /\ df' = csv /\ Running
       ELSE Abort(outcome) /\ df' = df
  /\ UNCHANGED <<csv, header, frames, load, store, second_run, setup>>

\* transform_data, called at line 332.
Transform ==
  /\ pc = "transform"
  /\ executed' = executed \cup {"transform"}
  /\ df' = transform_data(df)
  /\ pc' = "Dim_Date"
  /\ Running
  /\ UNCHANGED <<csv, header, frames, load, store, second_run, setup>>

\* The start of insert_data (lines 109-119): the connection is opened
\* outside the try block, so a failure to open it is an uncaught exception.
BeginInsert(table, data) ==
  \E ok \in BOOLEAN :
    IF ok
    THEN /\ load' = [table |-> table, data |-> data, i |-> 0, conn |-> "open"]
         /\ pc' = "insert"
         /\ Running
    ELSE /\ load' = [table |-> table, data |-> data, i |-> 0, conn |-> "none"]
         /\ Abort("ConnectionFailure")

\* create_dimensions, Dim_Date (lines 143-169): date_range raises a
\* ValueError, which nobody catches, when no order date is valid; the
\* assertion of line 166 guards the load.
CreateDimDate ==
  /\ pc = "Dim_Date"
  /\ executed' = executed \cup {"Dim_Date"}
  /\ IF MinDate(df) = NaT \/ MaxDate(df) = NaT
     THEN /\ Abort("DateRangeError")
          /\ UNCHANGED <<dim_date, load>>
     ELSE LET built == BuildDimDate(df)
          IN /\ dim_date' = built
             /\ IF is_unique([k \in 1..Len(built) |-> built[k].DateKey])
                THEN BeginInsert("Dim_Date", built)
                ELSE Abort("UniquenessViolation") /\ load' = load
  /\ UNCHANGED <<csv, header, df, dim_customer, dim_product, dim_shipmode,
                 dim_location, final_fact, store, second_run, setup>>

\* create_dimensions, Dim_Customer (lines 171-176).
CreateDimCustomer ==
  /\ pc = "Dim_Customer"
  /\ executed' = executed \cup {"Dim_Customer"}
  /\ dim_customer' = BuildDimCustomer(df)
  /\ BeginInsert("Dim_Customer", dim_customer')
  /\ UNCHANGED <<csv, header, df, dim_date, dim_product, dim_shipmode,
                 dim_location, final_fact, store, second_run, setup>>

\* create_dimensions, Dim_Product (lines 178-183).
CreateDimProduct ==
  /\ pc = "Dim_Product"
  /\ executed' = executed \cup {"Dim_Product"}
  /\ dim_product' = BuildDimProduct(df)
  /\ BeginInsert("Dim_Product", dim_product')
  /\ UNCHANGED <<csv, header, df, dim_date, dim_customer, dim_shipmode,
                 dim_location, final_fact, store, second_run, setup>>

\* create_dimensions, Dim_ShipMode (lines 185-190).
CreateDimShipMode ==
  /\ pc = "Dim_ShipMode"
  /\ executed' = executed \cup {"Dim_ShipMode"}
  /\ dim_shipmode' = BuildDimShipMode(df)
  /\ BeginInsert("Dim_ShipMode", dim_shipmode')
  /\ UNCHANGED <<csv, header, df, dim_date, dim_customer, dim_product,
                 dim_location, final_fact, store, second_run, setup>>

\* create_dimensions, Dim_Location (lines 192-211).
CreateDimLocation ==
  /\ pc = "Dim_Location"
  /\ executed' = executed \cup {"Dim_Location"}
  /\ dim_location' = BuildDimLocation(df)
  /\ BeginInsert("Dim_Location", dim_location')
  /\ UNCHANGED <<csv, header, df, dim_date, dim_customer, dim_product,
                 dim_shipmode, final_fact, store, second_run, setup>>

\* load_face_sales (lines 215-254), called with the two frames that
\* create_dimensions returned.
load_face_sales ==
  /\ pc = "Fact_Sales"
  /\ executed' = executed \cup {"Fact_Sales"}
  /\ final_fact' = BuildFact(df, dim_shipmode, dim_location)
  /\ BeginInsert("Fact_Sales", final_fact')
  /\ UNCHANGED <<csv, header, df, dim_date, dim_customer, dim_product,
                 dim_shipmode, dim_location, store, second_run, setup>>

\* insert_data, one turn of the loop (lines 122-125, 127-133): the batch is
\* inserted and committed, or the insert raises: nothing of the batch is
\* committed, the connection is closed and the process exits.
InsertChunk ==
  /\ pc = "insert"
  /\ load.i < Len(load.data)
  /\ \E ok \in BOOLEAN :
       IF ok
       THEN /\ store' = [store EXCEPT
                           ![load.table] = @ \o Chunk(load.data, load.i)]
            /\ load' = [load EXCEPT !.i = @ + chunksize]
            /\ pc' = pc
            /\ Running
       ELSE /\ store' = [store EXCEPT
                           ![load.table] =
                              AfterFailedBatch(@, Chunk(load.data, load.i))]
            /\ load' = [load EXCEPT !.conn = "closed"]
            /\ Abort("LoadFailure")
  /\ UNCHANGED <<csv, header, df, frames, executed, second_run, setup>>

\* insert_data, after the last batch (lines 126, 132-133): the connection is
\* closed and the caller goes on; after Fact_Sales main returns.
InsertDone ==
  /\ pc = "insert"
  /\ load.i >= Len(load.data)
  /\ load' = [load EXCEPT !.conn = "closed"]
  /\ pc' = StageAfter(load.table)
  /\ IF pc' = "done"
     THEN exited' = TRUE /\ exit_code' = ExitStatus("none") /\ fatal' = fatal
     ELSE Running
  /\ UNCHANGED <<csv, header, df, frames, store, executed, second_run, setup>>

\* The pipeline is run again on the same file: a new process, the store as
\* the first run left it.
Rerun ==
  /\ pc = "done"
  /\ ~second_run
  /\ second_run' = TRUE
  /\ pc' = "connect"
  /\ df' = <<>>
  /\ dim_date' = <<>> /\ dim_customer' = <<>> /\ dim_product' = <<>>
  /\ dim_shipmode' = <<>> /\ dim_location' = <<>> /\ final_fact' = <<>>
  /\ load' = NoLoad
  /\ exited' = FALSE
  /\ exit_code' = 0
  /\ fatal' = "none"
  /\ executed' = {}
  /\ UNCHANGED <<csv, header, store, setup>>

Next ==
  \/ get_db_connection
  \/ execute_schema_script
  \/ InitSchema
  \/ extract_data
  \/ Transform
  \/ CreateDimDate
  \/ CreateDimCustomer
  \/ CreateDimProduct
  \/ CreateDimShipMode
  \/ CreateDimLocation
  \/ load_face_sales
  \/ InsertChunk
  \/ InsertDone
  \/ Rerun

Spec == Init /\ [][Next]_vars

\* ===================================================== checked properties
\* The frame this run has built for a table.
FrameOf(t) ==
  CASE t = "Dim_Date" -> dim_date
    [] t = "Dim_Customer" -> dim_customer
    [] t = "Dim_Product" -> dim_product
    [] t = "Dim_ShipMode" -> dim_shipmode
    [] t = "Dim_Location" -> dim_location
    [] OTHER -> final_fact

\* The stages of a run, in the order main() goes through them.
StageOrder ==
  <<"connect", "schema", "extract", "transform", "Dim_Date", "Dim_Customer",
    "Dim_Product", "Dim_ShipMode", "Dim_Location", "Fact_Sales">>

StagePos(st) == CHOOSE n \in 1..Len(StageOrder) : StageOrder[n] = st

StagesUpTo(st) == {StageOrder[n] : n \in 1..StagePos(st)}

\* Position of the first element of a sequence equal to v.
FirstIndex(seq, v) ==
  CHOOSE i \in 1..Len(seq) : seq[i] = v /\ \A j \in 1..(i - 1) : seq[j] # v

\* A table is completely loaded: its stage ran and every row of its frame is
\* committed, in order.
Loaded(t) == t \in executed /\ store[t] = FrameOf(t)

\* C1: no batch of Fact_Sales is inserted until the five dimension tables
\* have had every batch inserted and committed; when a dimension load fails,
\* the load of Fact_Sales never starts.
C1_DimensionsBeforeFact ==
  /\ "Fact_Sales" \in executed => \A d \in Dimensions : Loaded(d)
  /\ ("extract" \in executed /\ store["Fact_Sales"] # <<>>) =>
       /\ "Fact_Sales" \in executed
       /\ \A d \in Dimensions : Loaded(d)
  /\ (fatal # "none" /\ load.table \in Dimensions) =>
       /\ "Fact_Sales" \notin executed
       /\ store["Fact_Sales"] = <<>>
       /\ ~ENABLED Next

\* C1 witness: the second batch of Fact_Sales is about to go in, after a
\* Dim_Date load of several batches.
C1_Witness ==
  /\ pc = "insert" /\ load.table = "Fact_Sales"
  /\ load.i > 0 /\ load.i < Len(load.data)
  /\ store["Fact_Sales"] # <<>>
  /\ Len(store["Dim_Date"]) > chunksize

\* The tables loaded after table t in a run.
LaterTables(t) ==
  {u \in Tables : StagePos(u) > StagePos(t)}

\* C2: when the insert of a batch fails, the batches before it stay
\* committed, the failing batch and the later ones are not, the connection
\* is closed, and the process ends with a non-zero status without loading
\* any further table.
C2_FailedBatchKeepsEarlierBatches ==
  fatal = "LoadFailure" =>
    /\ load.i <= Len(load.data)
    /\ store[load.table] = SubSeq(load.data, 1, load.i)
    /\ load.conn = "closed"
    /\ pc = "exit" /\ exited /\ exit_code # 0
    /\ \A u \in LaterTables(load.table) :
         u \notin executed /\ store[u] = <<>>
    /\ ~ENABLED Next

\* C2 witness: a batch after the first fails, with rows already committed
\* and rows left uncommitted.
C2_Witness ==
  /\ fatal = "LoadFailure"
  /\ load.i > 0
  /\ store[load.table] # <<>>
  /\ Len(store[load.table]) < Len(load.data)

\* The distinct values of a sequence first seen at or before position i.
SeenUpTo(seq, i) == {seq[j] : j \in 1..i}

\* The location tuple of a Dim_Location row under the frame's column names.
LocationTupleOf(d, cols) == [c \in cols |-> d.cols[RightKey(c)]]

\* C3: the ShipModeID values of Dim_ShipMode and the LocationID values of
\* Dim_Location are exactly 1..N, N the number of distinct ship modes
\* (location tuples) of the batch, and key k goes to the k-th distinct value
\* in first-seen order.
C3_SurrogateKeysDense ==
  /\ "Dim_ShipMode" \in executed =>
       LET modes == [i \in 1..Len(df) |-> df[i].ship_mode]
           n == Cardinality({modes[i] : i \in 1..Len(modes)})
       IN /\ Len(dim_shipmode) = n
          /\ {dim_shipmode[k].ShipModeID : k \in 1..n} = 1..n
          /\ \A k \in 1..n :
               /\ dim_shipmode[k].ShipMode \in SeenUpTo(modes, Len(modes))
               /\ dim_shipmode[k].ShipModeID =
                    Cardinality(SeenUpTo(modes,
                       FirstIndex(modes, dim_shipmode[k].ShipMode)))
  /\ "Dim_Location" \in executed =>
       LET tuples == [i \in 1..Len(df) |-> df[i].loc]
           n == Cardinality({tuples[i] : i \in 1..Len(tuples)})
           cols == AvailableCols(df)
       IN /\ Len(dim_location) = n
          /\ {dim_location[k].LocationID : k \in 1..n} = 1..n
          /\ \A k \in 1..n :
               LET t == LocationTupleOf(dim_location[k], cols)
               IN /\ t \in SeenUpTo(tuples, Len(tuples))
                  /\ dim_location[k].LocationID =
                       Cardinality(SeenUpTo(tuples, FirstIndex(tuples, t)))

\* C3 witness: both tables are built from a batch in which a ship mode and a
\* location repeat and at least two of each are distinct.
C3_Witness ==
  /\ "Dim_Location" \in executed
  /\ Len(dim_shipmode) >= 2 /\ Len(dim_location) >= 2
  /\ Len(df) > Len(dim_shipmode) /\ Len(df) > Len(dim_location)

\* C4: the Fact_Sales rows have pairwise distinct RowIDs, exactly one row
\* for each distinct RowID of the input, carrying the values of the first
\* input row with that RowID.
C4_FactOneRowPerRowID ==
  "Fact_Sales" \in executed =>
    LET ids == [i \in 1..Len(df) |-> df[i].row_id]
    IN /\ is_unique([k \in 1..Len(final_fact) |-> final_fact[k].RowID])
       /\ Len(MergeLocation(MergeShipMode(df, dim_shipmode), dim_location,
                            AvailableCols(df))) = Len(df)
       /\ Len(final_fact) = Cardinality({ids[i] : i \in 1..Len(ids)})
       /\ {final_fact[k].RowID : k \in 1..Len(final_fact)} =
            {ids[i] : i \in 1..Len(ids)}
       /\ \A k \in 1..Len(final_fact) :
            LET r == df[FirstIndex(ids, final_fact[k].RowID)]
                f == final_fact[k]
            IN /\ f.OrderID = r.order_id
               /\ f.DateKey = r.date_key
               /\ f.CustomerID = r.customer_id
               /\ f.ProductID = r.product_id
               /\ f.Sales = r.sales
               /\ f.Discount = r.discount
               /\ f.discount_category = r.discount_category

\* C4 witness: a batch with a repeated RowID and another RowID.
C4_Witness ==
  /\ "Fact_Sales" \in executed
  /\ Len(final_fact) >= 2
  /\ Len(final_fact) < Len(df)

\* The calendar days from the earliest to the latest valid order date.
OrderDays(rows) ==
  IF ValidDates(rows) = {} THEN {}
  ELSE DayOf(MinDate(rows))..DayOf(MaxDate(rows))

\* C5: Dim_Date holds exactly one row for each calendar day from the
\* earliest to the latest valid order date, plus exactly one DateKey = 0
\* row, with pairwise distinct DateKeys; when the DateKeys are not distinct
\* the run aborts before a Dim_Date row is loaded.
C5_DimDateCoversOrderDays ==
  /\ "Dim_Date" \in executed =>
       LET real == SelectSeq(dim_date, LAMBDA d : d.DateKey # 0)
       IN /\ Len(dim_date) = Len(real) + 1
          /\ is_unique([k \in 1..Len(dim_date) |-> dim_date[k].DateKey])
          /\ Len(real) = Cardinality(OrderDays(df))
          /\ {DayOf(real[k].Date) : k \in 1..Len(real)} = OrderDays(df)
          /\ \A k \in 1..Len(real) :
               real[k].DateKey = StrftimeYmd(real[k].Date)
  /\ fatal = "UniquenessViolation" => store["Dim_Date"] = <<>>

\* C6 as stated: "No Discount" exactly when d = 0, "Low" exactly when
\* 0 < d < 0.2, "High" exactly when d >= 0.2.
C6_DiscountCategoryAsStated ==
  "transform" \in executed =>
    \A i \in 1..Len(df) :
      LET d == df[i].discount
          c == df[i].discount_category
      IN /\ c = "No Discount" <=> (d # NaN /\ d = 0)
         /\ c = "Low" <=> (d # NaN /\ 0 < d /\ d < 20)
         /\ c = "High" <=> (d # NaN /\ d >= 20)

\* C6 amended: "No Discount" exactly when d = 0, "Low" exactly when d is a
\* number other than 0 below 0.2 (negative discounts included), "High"
\* exactly when d >= 0.2 or d is missing.
C6_DiscountCategory ==
  "transform" \in executed =>
    \A i \in 1..Len(df) :
      LET d == df[i].discount
          c == df[i].discount_category
      IN /\ c \in {"No Discount", "Low", "High"}
         /\ c = "No Discount" <=> (d # NaN /\ d = 0)
         /\ c = "Low" <=> (d # NaN /\ d # 0 /\ d < 20)
         /\ c = "High" <=> (d = NaN \/ d >= 20)

\* C6 witness: a transformed batch with a discount of exactly 0.2, a zero
\* discount and a discount between them.
C6_Witness ==
  /\ "transform" \in executed
  /\ \E i, j, k \in 1..Len(df) :
       /\ df[i].discount = 20 /\ df[i].discount_category = "High"
       /\ df[j].discount = 0 /\ df[j].discount_category = "No Discount"
       /\ df[k].discount = 10 /\ df[k].discount_category = "Low"

\* C7: Dim_Customer has exactly one row per distinct upper-cased CustomerID
\* of the file and Dim_Product one per distinct upper-cased ProductID, with
\* the attributes of the first input row that has the key.
C7_OneRowPerNaturalKey ==
  /\ "Dim_Customer" \in executed =>
       LET ids == [i \in 1..Len(csv) |-> Upper(AsStr(csv[i].customer_id))]
       IN /\ is_unique([k \in 1..Len(dim_customer) |->
                          dim_customer[k].CustomerID])
          /\ {dim_customer[k].CustomerID : k \in 1..Len(dim_customer)} =
               {ids[i] : i \in 1..Len(ids)}
          /\ \A k \in 1..Len(dim_customer) :
               LET r == csv[FirstIndex(ids, dim_customer[k].CustomerID)]
               IN /\ dim_customer[k].CustomerName = r.customer_name
                  /\ dim_customer[k].Segment = r.segment
  /\ "Dim_Product" \in executed =>
       LET ids == [i \in 1..Len(csv) |-> Upper(AsStr(csv[i].product_id))]
       IN /\ is_unique([k \in 1..Len(dim_product) |->
                          dim_product[k].ProductID])
          /\ {dim_product[k].ProductID : k \in 1..Len(dim_product)} =
               {ids[i] : i \in 1..Len(ids)}
          /\ \A k \in 1..Len(dim_product) :
               LET r == csv[FirstIndex(ids, dim_product[k].ProductID)]
               IN dim_product[k].ProductName = r.product_name

\* C7 witness: two rows of the file have the same CustomerID up to case and
\* different names, and another customer follows.
C7_Witness ==
  /\ "Dim_Product" \in executed
  /\ Len(dim_customer) >= 2
  /\ \E i, j \in 1..Len(csv) :
       /\ i < j
       /\ csv[i].customer_id # csv[j].customer_id
       /\ Upper(csv[i].customer_id) = Upper(csv[j].customer_id)
       /\ csv[i].customer_name # csv[j].customer_name

\* The stage at which each fatal condition can end a run.
FatalStages(cond) ==
  CASE cond = "SchemaInitializationFailure" -> {"schema"}
    [] cond = "InputNotFound" -> {"extract"}
    [] cond = "EncodingError" -> {"extract"}
    [] cond = "DateRangeError" -> {"Dim_Date"}
    [] cond = "UniquenessViolation" -> {"Dim_Date"}
    [] cond = "LoadFailure" -> Tables
    [] cond = "ConnectionFailure" -> {"connect"} \cup Tables
    [] OTHER -> {}

\* C9: a run ends with exit status 0 only after all six tables are
\* completely loaded; every fatal condition ends it with a non-zero status,
\* no later stage is executed, and a schema failure ends it before
\* extraction.
C9_ExitStatus ==
  /\ (exited /\ exit_code = 0) =>
       /\ pc = "done" /\ fatal = "none"
       /\ \A t \in Tables : Loaded(t)
  /\ pc = "done" => (exited /\ exit_code = 0)
  /\ fatal # "none" =>
       /\ exited /\ exit_code # 0 /\ pc = "exit"
       /\ \E st \in FatalStages(fatal) : executed = StagesUpTo(st)
       /\ ~ENABLED Next
  /\ fatal = "SchemaInitializationFailure" =>
       "extract" \notin executed /\ df = <<>>

\* C9 witness: the load of Fact_Sales fails after its first batch, with the
\* five dimension tables loaded.
C9_Witness ==
  /\ fatal = "LoadFailure" /\ load.table = "Fact_Sales"
  /\ exited /\ exit_code = 1
  /\ store["Fact_Sales"] # <<>>
  /\ \A d \in Dimensions : Loaded(d)

\* C10: for a batch with at least one valid order date, every Fact_Sales
\* row refers to existing dimension rows: its DateKey is in Dim_Date (0 for
\* a missing order date), its ShipModeID and LocationID are those of the
\* rows holding its ship mode and its location tuple, its CustomerID and
\* ProductID are keys of Dim_Customer and Dim_Product.  Stated of the rows
\* committed to the store by this run.
C10_FactReferencesDimensions ==
  ("Fact_Sales" \in executed /\ ValidDates(df) # {}) =>
    LET ids == [i \in 1..Len(df) |-> df[i].row_id]
        fact == store["Fact_Sales"]
        dates == store["Dim_Date"]
        modes == store["Dim_ShipMode"]
        locations == store["Dim_Location"]
        customers == store["Dim_Customer"]
        products == store["Dim_Product"]
    IN \A k \in 1..Len(fact) :
         LET f == fact[k]
             r == df[FirstIndex(ids, f.RowID)]
         IN /\ \E d \in 1..Len(dates) : dates[d].DateKey = f.DateKey
            /\ r.order_date = NaT => f.DateKey = 0
            /\ \E d \in 1..Len(modes) :
                 /\ modes[d].ShipModeID = f.ShipModeID
                 /\ modes[d].ShipMode = r.ship_mode
            /\ \E d \in 1..Len(locations) :
                 /\ locations[d].LocationID = f.LocationID
                 /\ LocationTupleOf(locations[d], AvailableCols(df)) = r.loc
            /\ \E d \in 1..Len(customers) :
                 customers[d].CustomerID = f.CustomerID
            /\ \E d \in 1..Len(products) :
                 products[d].ProductID = f.ProductID
====
